---- MODULE Spec2Model ----
(***************************************************************************)
(* Invoice reader: the page component Home (file selection, the batch run  *)
(* processInvoices, the sanitizer) and the extraction route POST.          *)
(*                                                                         *)
(* JavaScript strings are sequences of one-character strings, so that the  *)
(* sanitizer's regular expression is computed character by character.      *)
(* A JavaScript value is a record [t, s]: its type tag and, for a string   *)
(* or a number, its characters.  A JavaScript object is a function from    *)
(* its own keys to values.                                                 *)
(***************************************************************************)
EXTENDS Integers, Sequences, FiniteSets, TLC

\* ------------------------------------------------------------------ bounds
\* Largest selection a run is started on in the model.
MaxRun == 2
\* Largest number of files one pick of the file dialog returns in Spec.
MaxPick == 2

\* --------------------------------------------------------- program constants
\* The 10-file limit of handleFileSelection.
MaxFiles == 10

\* ------------------------------------------------------------ JS values
Str(s) == [t |-> "string", s |-> s]
Num(s) == [t |-> "number", s |-> s]
Undefined == [t |-> "undefined", s |-> <<>>]

\* JavaScript truthiness of a value: '' and undefined are falsy (the numbers
\* of the model are non-zero).
Truthy(v) == CASE v.t = "string" -> v.s # <<>>
               [] v.t = "number" -> TRUE
               [] OTHER -> FALSE

EmptyObj == [k \in {} |-> Undefined]

\* obj.key: undefined for a key the object does not own.
Get(obj, k) == IF k \in DOMAIN obj THEN obj[k] ELSE Undefined

\* { ...a, ...b }: b's own properties override a's.
Spread(a, b) == [k \in (DOMAIN a) \cup (DOMAIN b) |-> IF k \in DOMAIN b THEN b[k] ELSE a[k]]

\* The result of JSON.parse: an object with its properties, or null.
ObjVal(o) == [t |-> "object", o |-> o]
NullVal == [t |-> "null", o |-> EmptyObj]

\* The own enumerable properties a spread copies out of a parsed value.
OwnProps(d) == IF d.t = "object" THEN d.o ELSE EmptyObj

\* -------------------------------------------------------------- strings
S_Error == <<"E", "r", "r", "o", "r">>
S_NA == <<"N", "/", "A">>
S_INV1001 == <<"I", "N", "V", "-", "1", "0", "0", "1">>
S_1001 == <<"1", "0", "0", "1">>
S_ABN == <<"A", "B", "N", " ", "1", "2", " ", "3", "4", "5">>
S_Amount == <<"$", "1", ",", "2", "3", "4", ".", "5", "0">>
S_Date == <<"1", "2", "/", "0", "3", "/", "2", "0", "2", "4">>
S_aJpg == <<"a", ".", "j", "p", "g">>
S_bJpg == <<"b", ".", "j", "p", "g">>
S_xJpg == <<"x", ".", "j", "p", "g">>

Digits == {"0", "1", "2", "3", "4", "5", "6", "7", "8", "9"}

\* ------------------------------------------------------------ sanitizer
\* The rest of s after its leading run of non-digits (one match of /\D+/).
RECURSIVE SkipNonDigits(_)
SkipNonDigits(s) ==
  IF s = <<>> \/ Head(s) \in Digits THEN s ELSE SkipNonDigits(Tail(s))

\* s.replace(/\D+/g, ''): every maximal run of non-digits is cut out.
RECURSIVE ReplaceNonDigitRuns(_)
ReplaceNonDigitRuns(s) ==
  IF s = <<>> THEN <<>>
  ELSE IF Head(s) \in Digits THEN <<Head(s)>> \o ReplaceNonDigitRuns(Tail(s))
  ELSE ReplaceNonDigitRuns(SkipNonDigits(s))

\* (raw || ''): the value .replace is called on.
OrEmpty(raw) == IF Truthy(raw) THEN raw ELSE Str(<<>>)

\* .replace exists on strings only: on any other truthy value the call
\* throws a TypeError.
SanitizeThrows(raw) == OrEmpty(raw).t # "string"

\* As sanitizeInvoiceNumber, without the replace.
sanitizeInvoiceNumber_NoReplace(raw) == OrEmpty(raw)

sanitizeInvoiceNumber(raw) == Str(ReplaceNonDigitRuns(OrEmpty(raw).s))

\* ------------------------------------------------- the model's response texts
\* The text of the first candidate's first part, as the inference endpoint
\* may return it.  The endpoint is outside the repository: the texts cover a
\* response that follows the schema, one of sentinels, and responses that
\* do not follow it.
T_Invoice == "{\"invoiceNumber\":\"INV-1001\",\"companyNumber\":\"ABN 12 345\",\"totalAmount\":\"$1,234.50\",\"date\":\"12/03/2024\"}"
T_NA == "{\"invoiceNumber\":\"N/A\",\"companyNumber\":\"N/A\",\"totalAmount\":\"N/A\",\"date\":\"N/A\"}"
T_Number == "{\"invoiceNumber\":1001,\"companyNumber\":\"N/A\",\"totalAmount\":\"N/A\",\"date\":\"N/A\"}"
T_Missing == "{\"invoiceNumber\":\"INV-1001\"}"
T_Extra == "{\"invoiceNumber\":\"N/A\",\"companyNumber\":\"N/A\",\"totalAmount\":\"N/A\",\"date\":\"N/A\",\"fileName\":\"x.jpg\"}"
T_Null == "null"
T_Bad == "Sorry, I cannot read this image."
T_Empty == ""

Texts == {T_Invoice, T_NA, T_Number, T_Missing, T_Extra, T_Null, T_Bad, T_Empty}

Fields == {"invoiceNumber", "companyNumber", "date", "totalAmount"}

Obj4(inv, comp, date, total) ==
  [invoiceNumber |-> inv, companyNumber |-> comp, date |-> date, totalAmount |-> total]

\* JSON.parse on the texts of the model: the parsed value, or a SyntaxError.
JSONparse(text) ==
  CASE text = T_Invoice ->
         [threw |-> FALSE, v |-> ObjVal(Obj4(Str(S_INV1001), Str(S_ABN), Str(S_Date), Str(S_Amount)))]
    [] text = T_NA ->
         [threw |-> FALSE, v |-> ObjVal(Obj4(Str(S_NA), Str(S_NA), Str(S_NA), Str(S_NA)))]
    [] text = T_Number ->
         [threw |-> FALSE, v |-> ObjVal(Obj4(Num(S_1001), Str(S_NA), Str(S_NA), Str(S_NA)))]
    [] text = T_Missing ->
         [threw |-> FALSE, v |-> ObjVal([invoiceNumber |-> Str(S_INV1001)])]
    [] text = T_Extra ->
         [threw |-> FALSE,
          v |-> ObjVal(Spread(Obj4(Str(S_NA), Str(S_NA), Str(S_NA), Str(S_NA)),
                              [fileName |-> Str(S_xJpg)]))]
    [] text = T_Null -> [threw |-> FALSE, v |-> NullVal]
    [] OTHER -> [threw |-> TRUE, v |-> NullVal]

\* ------------------------------------------------------ extraction route
\* What the inference endpoint does with one request: the fetch to it
\* rejects ("throw"), or it answers with a status and a body that is no
\* JSON ("garbled") or an envelope whose first candidate's first part has a
\* text or none ("answer").
Upstream(kind, status, hasText, text) ==
  [kind |-> kind, status |-> status, hasText |-> hasText, text |-> text]

UpstreamOutcomes ==
  {Upstream("throw", 0, FALSE, "")}
    \cup {Upstream("answer", 429, FALSE, ""), Upstream("answer", 500, FALSE, "")}
    \cup {Upstream("garbled", 200, FALSE, ""), Upstream("answer", 200, FALSE, "")}
    \cup {Upstream("answer", 200, TRUE, t) : t \in Texts}

IsOk(status) == status >= 200 /\ status <= 299

\* A response of the route: its status, the error of its body, and the
\* candidate text of the envelope it passes on.
Response(status, err, hasText, text) ==
  [status |-> status, error |-> err, hasText |-> hasText, text |-> text]

\* A request body: json tells whether req.json() can parse it; a field
\* that is missing or empty is <<>>.
Body(base64ImageData, prompt) ==
  [json |-> TRUE, base64ImageData |-> base64ImageData, prompt |-> prompt]
Unparsable == [json |-> FALSE, base64ImageData |-> <<>>, prompt |-> <<>>]

\* As POST, without the check of the API key.
POST_NoKeyCheck(req, apiKey, up) ==
  IF ~req.json
    THEN [calls |-> 0, res |-> Response(500, "Server exception", FALSE, "")]
  ELSE IF req.base64ImageData = <<>> \/ req.prompt = <<>>
    THEN [calls |-> 0, res |-> Response(400, "Missing base64ImageData or prompt", FALSE, "")]
  ELSE IF up.kind = "throw"
    THEN [calls |-> 1, res |-> Response(500, "Server exception", FALSE, "")]
  ELSE IF up.kind = "garbled" /\ IsOk(up.status)
    THEN [calls |-> 1, res |-> Response(500, "Server exception", FALSE, "")]
  ELSE IF ~IsOk(up.status)
    THEN [calls |-> 1, res |-> Response(up.status, "Upstream error", FALSE, "")]
  ELSE [calls |-> 1, res |-> Response(200, "", up.hasText, up.text)]

\* POST: req is the request body, apiKey whether GEMINI_API_KEY is set, up
\* the inference endpoint's outcome.  calls is the number of fetches to the
\* inference endpoint the request made.
POST(req, apiKey, up) ==
  IF ~req.json
    THEN [calls |-> 0, res |-> Response(500, "Server exception", FALSE, "")]
  ELSE IF req.base64ImageData = <<>> \/ req.prompt = <<>>
    THEN [calls |-> 0, res |-> Response(400, "Missing base64ImageData or prompt", FALSE, "")]
  ELSE IF ~apiKey
    THEN [calls |-> 0, res |-> Response(500, "Server misconfigured: missing GEMINI_API_KEY", FALSE, "")]
  ELSE IF up.kind = "throw"
    THEN [calls |-> 1, res |-> Response(500, "Server exception", FALSE, "")]
  ELSE IF up.kind = "garbled" /\ IsOk(up.status)
    THEN [calls |-> 1, res |-> Response(500, "Server exception", FALSE, "")]
  ELSE IF ~IsOk(up.status)
    THEN [calls |-> 1, res |-> Response(up.status, "Upstream error", FALSE, "")]
  ELSE [calls |-> 1, res |-> Response(200, "", up.hasText, up.text)]

\* ------------------------------------------------------ extraction gateway
Prompt == <<"p", "r", "o", "m", "p", "t">>

Thrown(msg) == [threw |-> TRUE, msg |-> msg, v |-> NullVal]
Returned(v) == [threw |-> FALSE, msg |-> "", v |-> v]

\* As extractInvoiceData, without the check of response.ok.
extractInvoiceData_IgnoresStatus(net, res) ==
  IF net = "reject" THEN Thrown("fetch failed")
  ELSE IF res.hasText /\ res.text # ""
    THEN IF JSONparse(res.text).threw THEN Thrown("SyntaxError")
         ELSE Returned(JSONparse(res.text).v)
  ELSE Thrown("No structured result from model")

\* extractInvoiceData after its fetch settled: net is "reject" when the
\* fetch to /api/extract itself failed, else res is the route's response.
extractInvoiceData(net, res) ==
  IF net = "reject" THEN Thrown("fetch failed")
  ELSE IF ~IsOk(res.status) THEN Thrown("Server extraction failed")
  ELSE IF res.hasText /\ res.text # ""
    THEN IF JSONparse(res.text).threw THEN Thrown("SyntaxError")
         ELSE Returned(JSONparse(res.text).v)
  ELSE Thrown("No structured result from model")

\* ------------------------------------------------------------------ files
File(name, size) == [name |-> name, size |-> size]

\* The files the user picks from in Spec: two of them share a name.
AppFiles == {File(S_aJpg, 1), File(S_bJpg, 1), File(S_aJpg, 2)}

SeqsUpTo(S, n) == UNION {[1..k -> S] : k \in 1..n}

\* One pick of the file dialog in Spec: up to MaxPick different files.
AppPicks ==
  {p \in SeqsUpTo(AppFiles, MaxPick) : \A i, j \in 1..Len(p) : p[i] = p[j] => i = j}

\* What FileReader.readAsDataURL delivers: "error" fires onerror; else
\* onload carries a data URL.
DataUrl_Image == <<"d", "a", "t", "a", ":", "i", ";", "b", ",", "Q", "U", "J", "D">>
DataUrl_NoPayload == <<"d", "a", "t", "a", ":", "i", ";", "b", ",">>
DataUrl_NoComma == <<"d", "a", "t", "a", ":">>
DataUrls == {DataUrl_Image, DataUrl_NoPayload, DataUrl_NoComma}

\* The characters of s before its first comma, and those after it.
RECURSIVE BeforeComma(_)
BeforeComma(s) ==
  IF s = <<>> \/ Head(s) = "," THEN <<>> ELSE <<Head(s)>> \o BeforeComma(Tail(s))

RECURSIVE AfterComma(_)
AfterComma(s) ==
  IF s = <<>> THEN <<>> ELSE IF Head(s) = "," THEN Tail(s) ELSE AfterComma(Tail(s))

\* s.split(',')[1]: the piece between the first and the second comma,
\* undefined when s has no comma.
SplitComma1(s) ==
  IF \E i \in 1..Len(s) : s[i] = "," THEN Str(BeforeComma(AfterComma(s))) ELSE Undefined

\* --------------------------------------------------------------- messages
IntStr(n) ==
  CASE n = 0 -> "0" [] n = 1 -> "1" [] n = 2 -> "2" [] n = 3 -> "3" [] n = 4 -> "4"
    [] n = 5 -> "5" [] n = 6 -> "6" [] n = 7 -> "7" [] n = 8 -> "8" [] n = 9 -> "9"
    [] n = 10 -> "10" [] n = 11 -> "11" [] n = 12 -> "12" [] n = 13 -> "13"
    [] n = 14 -> "14" [] n = 15 -> "15" [] OTHER -> "many"

ErrNoFiles == "No files selected."
ErrCritical == "A critical error occurred while processing files. Please check the console."
ErrTooMany(adding, have) ==
  "Cannot add " \o IntStr(adding) \o " file(s). Maximum of 10 files allowed. Currently have "
    \o IntStr(have) \o " files selected."

\* ---------------------------------------------------------------- records
\* The record a failed task resolves to.
ErrorRecord(file) ==
  [fileName |-> Str(file.name), invoiceNumber |-> Str(S_Error),
   companyNumber |-> Str(S_Error), date |-> Str(S_Error), totalAmount |-> Str(S_Error)]

\* { fileName: file.name, ...data }
DataRecord(file, data) == Spread([fileName |-> Str(file.name)], OwnProps(data))

\* As SanitizedRecord, with every extracted field sanitized.
SanitizedRecord_EveryField(r) ==
  [k \in (DOMAIN r) \cup {"invoiceNumber"} |->
     IF k = "fileName" THEN r[k] ELSE sanitizeInvoiceNumber(Get(r, k))]

\* { ...r, invoiceNumber: sanitizeInvoiceNumber(r.invoiceNumber) }
SanitizedRecord(r) ==
  Spread(r, [invoiceNumber |-> sanitizeInvoiceNumber(Get(r, "invoiceNumber"))])

\* ------------------------------------------------------------------ state
VARIABLES
  selectedFiles,  \* useState: the selected files, in selection order
  extractedData,  \* useState: the result set
  isLoading,      \* useState: the busy flag
  error,          \* useState: the message shown, "" for none
  pc,             \* where processInvoices stands: "idle" or "await" (Promise.all)
  runFiles,       \* the selectedFiles the running processInvoices closed over
  tasks,          \* processingPromises: per file of the run, its state
  apiKey,         \* the route's process.env.GEMINI_API_KEY is set
  xlsx,           \* the XLSX script has loaded: typeof XLSX is not 'undefined'
  written,        \* the file the last XLSX.writeFile wrote, NoFile before any
  served          \* the last exchange a client had with the route by itself

vars == <<selectedFiles, extractedData, isLoading, error, pc, runFiles, tasks, apiKey, xlsx, written, served>>

\* A promise of processingPromises: the file is being read, its extraction
\* request (req) is in flight, or the promise is resolved with rec.  call
\* tells whether extractInvoiceData was called for the file and how it
\* settled ("none", "threw", "returned"), data what it returned.
\* sent counts the requests to /api/extract made for the file in this run,
\* upstream the fetches to the inference endpoint the route made for them.
Reading ==
  [st |-> "reading", req |-> <<>>, call |-> "none", data |-> NullVal, rec |-> EmptyObj,
   sent |-> 0, upstream |-> 0]
Fetching(payload, sent, upstream) ==
  [st |-> "fetching", req |-> payload, call |-> "none", data |-> NullVal, rec |-> EmptyObj,
   sent |-> sent, upstream |-> upstream]
Resolved(call, data, rec, sent, upstream) ==
  [st |-> "resolved", req |-> <<>>, call |-> call, data |-> data, rec |-> rec,
   sent |-> sent, upstream |-> upstream]

\* No file written yet, and no exchange made yet.
NoFile == [fileName |-> "", sheets |-> <<>>]
NoExchange == [made |-> FALSE]

AllResolved == \A i \in 1..Len(tasks) : tasks[i].st = "resolved"

Init ==
  /\ selectedFiles = <<>>
  /\ extractedData = <<>>
  /\ isLoading = FALSE
  /\ error = ""
  /\ pc = "idle"
  /\ runFiles = <<>>
  /\ tasks = <<>>
  /\ apiKey \in BOOLEAN
  /\ xlsx = FALSE
  /\ written = NoFile
  /\ served = NoExchange

\* ---------------------------------------------------------- file selection
\* As handleFileSelection, without the 10-file check.
handleFileSelection_NoLimit(newFiles) ==
  LET filesToAdd ==
        SelectSeq(newFiles,
                  LAMBDA newFile :
                    ~\E e \in 1..Len(selectedFiles) :
                        /\ selectedFiles[e].name = newFile.name
                        /\ selectedFiles[e].size = newFile.size)
  IN IF Len(filesToAdd) > 0
       THEN /\ selectedFiles' = selectedFiles \o filesToAdd
            /\ error' = ""
       ELSE UNCHANGED <<selectedFiles, error>>

\* handleFileSelection: the change event of the file input carries newFiles.
handleFileSelection(newFiles) ==
  IF Len(newFiles) > 0
    THEN IF Len(selectedFiles) + Len(newFiles) > MaxFiles
           THEN /\ error' = ErrTooMany(Len(newFiles), Len(selectedFiles))
                /\ UNCHANGED selectedFiles
           ELSE LET filesToAdd ==
                      SelectSeq(newFiles,
                                LAMBDA newFile :
                                  ~\E e \in 1..Len(selectedFiles) :
                                      /\ selectedFiles[e].name = newFile.name
                                      /\ selectedFiles[e].size = newFile.size)
                IN IF Len(filesToAdd) > 0
                     THEN /\ selectedFiles' = selectedFiles \o filesToAdd
                          /\ error' = ""
                     ELSE UNCHANGED <<selectedFiles, error>>
    ELSE UNCHANGED <<selectedFiles, error>>

\* removeFile(indexToRemove), with the index counted from 1.
removeFile(indexToRemove) ==
  /\ selectedFiles' = [i \in 1..(Len(selectedFiles) - 1) |->
                         IF i < indexToRemove THEN selectedFiles[i] ELSE selectedFiles[i + 1]]
  /\ error' = ""

\* ------------------------------------------------------------ the batch run
\* As resetUI, without setIsLoading(true).
resetUI_NotBusy ==
  /\ error' = ""
  /\ extractedData' = <<>>
  /\ UNCHANGED isLoading

\* As resetUI, without setExtractedData([]).
resetUI_KeepsResults ==
  /\ error' = ""
  /\ isLoading' = TRUE
  /\ UNCHANGED extractedData

\* resetUI
resetUI ==
  /\ error' = ""
  /\ extractedData' = <<>>
  /\ isLoading' = TRUE

\* As processInvoices, with resetUI called before the guard.
processInvoices_ResetFirst ==
  /\ resetUI
  /\ IF Len(selectedFiles) = 0
       THEN UNCHANGED <<selectedFiles, pc, runFiles, tasks, apiKey, xlsx, written, served>>
       ELSE /\ runFiles' = selectedFiles
            /\ tasks' = [i \in 1..Len(selectedFiles) |-> Reading]
            /\ pc' = "await"
            /\ UNCHANGED <<selectedFiles, apiKey, xlsx, written, served>>

\* processInvoices up to its await: the guard, resetUI, and one promise per
\* selected file, each with its FileReader started.
processInvoices ==
  IF Len(selectedFiles) = 0
    THEN /\ error' = ErrNoFiles
         /\ UNCHANGED <<selectedFiles, extractedData, isLoading, pc, runFiles, tasks, apiKey, xlsx, written, served>>
    ELSE /\ resetUI
         /\ runFiles' = selectedFiles
         /\ tasks' = [i \in 1..Len(selectedFiles) |-> Reading]
         /\ pc' = "await"
         /\ UNCHANGED <<selectedFiles, apiKey, xlsx, written, served>>

\* reader.onerror of the i-th promise.
ReaderOnError(i) ==
  /\ tasks[i].st = "reading"
  /\ tasks' = [tasks EXCEPT ![i] = Resolved("none", NullVal, ErrorRecord(runFiles[i]), 0, 0)]
  /\ UNCHANGED <<selectedFiles, extractedData, isLoading, error, pc, runFiles, apiKey, xlsx, written, served>>

\* reader.onload of the i-th promise, up to its await: with a payload the
\* request to /api/extract is sent, without one the promise resolves.
ReaderOnLoad(i, url) ==
  /\ tasks[i].st = "reading"
  /\ LET base64ImageData == SplitComma1(url)
     IN tasks' = [tasks EXCEPT ![i] =
                    IF Truthy(base64ImageData)
                      THEN Fetching(base64ImageData.s, 1, 0)
                      ELSE Resolved("none", NullVal, ErrorRecord(runFiles[i]), 0, 0)]
  /\ UNCHANGED <<selectedFiles, extractedData, isLoading, error, pc, runFiles, apiKey, xlsx, written, served>>

\* What the i-th promise resolves to once extractInvoiceData settled.
TaskRecord(file, out) ==
  IF out.threw THEN ErrorRecord(file) ELSE DataRecord(file, out.v)

\* As FetchSettles, with a request that failed sent once more.
FetchSettles_Retry(i, net, up) ==
  /\ tasks[i].st = "fetching"
  /\ LET req == Body(tasks[i].req, Prompt)
         post == POST(req, apiKey, up)
         out == extractInvoiceData(net, post.res)
         calls == IF net = "reject" THEN 0 ELSE post.calls
     IN tasks' = [tasks EXCEPT ![i] =
                    IF out.threw /\ tasks[i].sent < 2
                      THEN Fetching(tasks[i].req, tasks[i].sent + 1, tasks[i].upstream + calls)
                      ELSE Resolved(IF out.threw THEN "threw" ELSE "returned", out.v,
                                    TaskRecord(runFiles[i], out),
                                    tasks[i].sent, tasks[i].upstream + calls)]
  /\ UNCHANGED <<selectedFiles, extractedData, isLoading, error, pc, runFiles, apiKey, xlsx, written, served>>

\* The fetch of the i-th promise settles: the route ran (POST) unless the
\* fetch itself failed; extractInvoiceData continues and the promise
\* resolves in the try or in the catch of onload.
FetchSettles(i, net, up) ==
  /\ tasks[i].st = "fetching"
  /\ LET req == Body(tasks[i].req, Prompt)
         post == POST(req, apiKey, up)
         out == extractInvoiceData(net, post.res)
         calls == IF net = "reject" THEN 0 ELSE post.calls
     IN tasks' = [tasks EXCEPT ![i] =
                    Resolved(IF out.threw THEN "threw" ELSE "returned", out.v,
                             TaskRecord(runFiles[i], out),
                             tasks[i].sent, tasks[i].upstream + calls)]
  /\ UNCHANGED <<selectedFiles, extractedData, isLoading, error, pc, runFiles, apiKey, xlsx, written, served>>

\* As PromiseAll, with the values of the files that are still selected.
PromiseAll_StillSelected(ts) ==
  LET kept == SelectSeq([i \in 1..Len(ts) |-> i],
                        LAMBDA i : \E e \in 1..Len(selectedFiles) : selectedFiles[e] = runFiles[i])
  IN [k \in 1..Len(kept) |-> ts[kept[k]].rec]

\* Promise.all(processingPromises): the values in the order of the promises.
PromiseAll(ts) == [i \in 1..Len(ts) |-> ts[i].rec]

\* results.map(r => ({...r, invoiceNumber: sanitizeInvoiceNumber(r.invoiceNumber)}))
SanitizerPassThrows(results) ==
  \E i \in 1..Len(results) : SanitizeThrows(Get(results[i], "invoiceNumber"))

SanitizedResults(results) == [i \in 1..Len(results) |-> SanitizedRecord(results[i])]

\* As JointAwaitDone, for Promise.race: one promise is resolved.
JointAwaitDone_First == \E i \in 1..Len(tasks) : tasks[i].st = "resolved"

\* All promises are resolved.
JointAwaitDone == AllResolved

\* As ProcessInvoicesResume, with setIsLoading(false) at the end of the try
\* instead of in a finally.
ProcessInvoicesResume_NoFinally ==
  /\ pc = "await"
  /\ JointAwaitDone
  /\ LET results == PromiseAll(tasks)
     IN IF SanitizerPassThrows(results)
          THEN /\ error' = ErrCritical
               /\ UNCHANGED <<extractedData, isLoading>>
          ELSE /\ extractedData' = SanitizedResults(results)
               /\ isLoading' = FALSE
               /\ UNCHANGED error
  /\ pc' = "idle"
  /\ UNCHANGED <<selectedFiles, runFiles, tasks, apiKey, xlsx, written, served>>

\* processInvoices after its await: try, catch and finally.
ProcessInvoicesResume ==
  /\ pc = "await"
  /\ JointAwaitDone
  /\ LET results == PromiseAll(tasks)
     IN IF SanitizerPassThrows(results)
          THEN /\ error' = ErrCritical
               /\ UNCHANGED extractedData
          ELSE /\ extractedData' = SanitizedResults(results)
               /\ UNCHANGED error
  /\ isLoading' = FALSE
  /\ pc' = "idle"
  /\ UNCHANGED <<selectedFiles, runFiles, tasks, apiKey, xlsx, written, served>>

\* ------------------------------------------------------------------ export
ErrXlsxLoading == "Excel library is still loading. Please try again in a moment."
ErrNoData == "No data to export."

\* The keys of a sheetData row in the order they are written: the titles of
\* the sheet's columns.
SheetKeys == <<"Invoice Number", "Company Number", "Date", "Total Amount", "Source File">>

\* One row of sheetData: the cells under SheetKeys.
SheetRow(item) ==
  <<Get(item, "invoiceNumber"), Get(item, "companyNumber"), Get(item, "date"),
    Get(item, "totalAmount"), Get(item, "fileName")>>

sheetData(data) == [i \in 1..Len(data) |-> SheetRow(data[i])]

Max(a, b) == IF a >= b THEN a ELSE b

\* rows.reduce((w, r) => Math.max(w, (r['Source File'] || '').length), w0);
\* the file names of the model are strings.
RECURSIVE ReduceMax(_, _)
ReduceMax(rows, w) ==
  IF rows = <<>> THEN w
  ELSE ReduceMax(Tail(rows), Max(w, Len(OrEmpty(Head(rows)[5]).s)))

\* The start value of the reduce.
MinSourceWidth == 10

\* As max_width, with the reduce started at 0.
max_width_FromZero(rows) == ReduceMax(rows, 0)

max_width(rows) == ReduceMax(rows, MinSourceWidth)

\* What XLSX.writeFile(workbook, 'InvoiceData.xlsx') writes: the workbook
\* holds the one sheet appended to it, with the rows json_to_sheet made of
\* sheetData and the column widths of '!cols'.
Workbook(data) ==
  [fileName |-> "InvoiceData.xlsx",
   sheets |-> << [name |-> "Invoices", header |-> SheetKeys, rows |-> sheetData(data),
                  cols |-> <<20, 20, 15, 15, max_width(sheetData(data))>>] >>]

\* As downloadExcel, with the two checks in the other order.
downloadExcel_DataFirst ==
  IF Len(extractedData) = 0
    THEN /\ error' = ErrNoData
         /\ UNCHANGED written
  ELSE IF ~xlsx
    THEN /\ error' = ErrXlsxLoading
         /\ UNCHANGED written
  ELSE /\ written' = Workbook(extractedData)
       /\ UNCHANGED error

downloadExcel ==
  IF ~xlsx
    THEN /\ error' = ErrXlsxLoading
         /\ UNCHANGED written
  ELSE IF Len(extractedData) = 0
    THEN /\ error' = ErrNoData
         /\ UNCHANGED written
  ELSE /\ written' = Workbook(extractedData)
       /\ UNCHANGED error

\* The script element of the effect has loaded the library.
ScriptLoads ==
  /\ ~xlsx
  /\ xlsx' = TRUE
  /\ UNCHANGED <<selectedFiles, extractedData, isLoading, error, pc, runFiles, tasks, apiKey,
                 written, served>>

\* ----------------------------------------------------------- the user's steps
\* The file input changes; its button is disabled at MaxFiles files.
ChooseFiles(newFiles) ==
  /\ Len(selectedFiles) < MaxFiles
  /\ handleFileSelection(newFiles)
  /\ UNCHANGED <<extractedData, isLoading, pc, runFiles, tasks, apiKey, xlsx, written, served>>

\* As ClickRemove, with the result set emptied.
ClickRemove_ClearsResults(i) ==
  /\ i \in 1..Len(selectedFiles)
  /\ removeFile(i)
  /\ extractedData' = <<>>
  /\ UNCHANGED <<isLoading, pc, runFiles, tasks, apiKey, xlsx, written, served>>

\* A click on the remove button of the i-th selected file.
ClickRemove(i) ==
  /\ i \in 1..Len(selectedFiles)
  /\ removeFile(i)
  /\ UNCHANGED <<extractedData, isLoading, pc, runFiles, tasks, apiKey, xlsx, written, served>>

\* As ClickProcess, with the button disabled without files only.
ClickProcess_EnabledWhileLoading ==
  /\ ~(Len(selectedFiles) = 0)
  /\ Len(selectedFiles) <= MaxRun
  /\ processInvoices

\* A click on the process button: disabled without files and while loading.
ClickProcess ==
  /\ ~(Len(selectedFiles) = 0 \/ isLoading)
  /\ Len(selectedFiles) <= MaxRun
  /\ processInvoices

\* processInvoices called while nothing is selected.
CallProcessEmpty ==
  /\ Len(selectedFiles) = 0
  /\ processInvoices

\* A click on the download button: it is in the results section, which is
\* rendered while loading, with results or with an error, and it is
\* disabled without results.
ClickDownload ==
  /\ isLoading \/ Len(extractedData) > 0 \/ error # ""
  /\ ~(Len(extractedData) = 0)
  /\ downloadExcel
  /\ UNCHANGED <<selectedFiles, extractedData, isLoading, pc, runFiles, tasks, apiKey,
                 xlsx, served>>

\* downloadExcel called while there are no results.
CallDownloadEmpty ==
  /\ Len(extractedData) = 0
  /\ downloadExcel
  /\ UNCHANGED <<selectedFiles, extractedData, isLoading, pc, runFiles, tasks, apiKey,
                 xlsx, served>>

Next ==
  \/ \E newFiles \in AppPicks : ChooseFiles(newFiles)
  \/ \E i \in 1..Len(selectedFiles) : ClickRemove(i)
  \/ ClickProcess
  \/ \E i \in 1..Len(tasks) : ReaderOnError(i)
  \/ \E i \in 1..Len(tasks), url \in DataUrls : ReaderOnLoad(i, url)
  \/ \E i \in 1..Len(tasks), net \in {"reject", "response"}, up \in UpstreamOutcomes :
       FetchSettles(i, net, up)
  \/ ProcessInvoicesResume

Spec == Init /\ [][Next]_vars

\* Spec, and processInvoices also called on an empty selection.
NextCall == Next \/ CallProcessEmpty

SpecCall == Init /\ [][NextCall]_vars

\* ------------------------------------------- selection with a larger folder
\* Length of the larger picks of SpecSel.
SelBlock == 5

Letters == <<"a", "b", "c", "d", "e", "f", "g", "h", "i", "j", "k", "l", "m", "n", "o", "p">>

\* The n-th file the user picks from in SpecSel: files 2k-1 and 2k have the
\* same name and different sizes.
SelFile(n) == File(<<Letters[(n + 1) \div 2], ".", "p", "n", "g">>, 1 + (n % 2))

Block(first, len) == [i \in 1..len |-> SelFile(first + i - 1)]

\* The picks of SpecSel: three blocks of different files, single files, a
\* pick that repeats part of the first two blocks, and a pick that holds
\* two copies of one file (same name and size) from two folders.
SelPicks ==
  { Block(1, SelBlock), Block(SelBlock + 1, SelBlock), Block(2 * SelBlock + 1, 2),
    <<SelFile(1)>>, <<SelFile(2 * SelBlock + 2)>>,
    <<SelFile(2), SelFile(SelBlock + 1)>>,
    <<SelFile(3), SelFile(3)>> }

\* SpecSel: selection alone, on the larger folder; the file removed is the
\* last one selected.
NextSel ==
  \/ \E newFiles \in SelPicks : ChooseFiles(newFiles)
  \/ \E i \in {Len(selectedFiles)} : ClickRemove(i)

SpecSel == Init /\ [][NextSel]_vars

\* ------------------------------------------------- the page with its export
S_LongJpg == <<"i", "n", "v", "o", "i", "c", "e", "-", "0", "0", "4", "2", ".", "j", "p", "g">>

\* The files the user picks from in SpecPage: a short name and one longer
\* than MinSourceWidth.
PageFiles == {File(S_aJpg, 1), File(S_LongJpg, 1)}

PagePicks ==
  {p \in SeqsUpTo(PageFiles, MaxPick) : \A i, j \in 1..Len(p) : p[i] = p[j] => i = j}

\* What the inference endpoint does in SpecPage.
PageOutcomes ==
  {Upstream("answer", 429, FALSE, ""), Upstream("answer", 200, TRUE, T_Invoice),
   Upstream("answer", 200, TRUE, T_Missing), Upstream("answer", 200, TRUE, T_Number)}

\* SpecPage: every handler of the page, the export included, and the two
\* handlers also called where their buttons are disabled.
NextPage ==
  \/ \E newFiles \in PagePicks : ChooseFiles(newFiles)
  \/ \E i \in 1..Len(selectedFiles) : ClickRemove(i)
  \/ ClickProcess
  \/ CallProcessEmpty
  \/ \E i \in 1..Len(tasks) : ReaderOnError(i)
  \/ \E i \in 1..Len(tasks) : ReaderOnLoad(i, DataUrl_Image)
  \/ \E i \in 1..Len(tasks), up \in PageOutcomes : FetchSettles(i, "response", up)
  \/ ProcessInvoicesResume
  \/ ScriptLoads
  \/ ClickDownload
  \/ CallDownloadEmpty

SpecPage == Init /\ [][NextPage]_vars

\* ------------------------------------------------------- the run, scheduled
\* SpecLive: selection and runs on the files of SpecPage, with the
\* continuation of processInvoices run once Promise.all has settled (the
\* event loop runs a continuation whose promise is settled).  Nothing makes
\* a FileReader or a fetch settle.
NextLive ==
  \/ \E newFiles \in PagePicks : ChooseFiles(newFiles)
  \/ \E i \in 1..Len(selectedFiles) : ClickRemove(i)
  \/ ClickProcess
  \/ \E i \in 1..Len(tasks) : ReaderOnError(i)
  \/ \E i \in 1..Len(tasks), url \in DataUrls : ReaderOnLoad(i, url)
  \/ \E i \in 1..Len(tasks), net \in {"reject", "response"}, up \in PageOutcomes :
       FetchSettles(i, net, up)
  \/ ProcessInvoicesResume

SpecLive == Init /\ [][NextLive]_vars /\ WF_vars(ProcessInvoicesResume)

\* ------------------------------------------------- the route and its clients
S_Payload == <<"Q", "U", "J", "D">>

\* The request bodies a client may post to /api/extract.
Requests ==
  {Body(b, p) : b \in {<<>>, S_Payload}, p \in {<<>>, Prompt}} \cup {Unparsable}

\* A client posts req to /api/extract and handles the outcome as
\* extractInvoiceData does: the route answers (POST) unless the fetch
\* itself failed.
RoutePost(req, net, up) ==
  /\ LET post == POST(req, apiKey, up)
     IN served' = [made |-> TRUE, req |-> req, net |-> net, up |-> up,
                   calls |-> IF net = "reject" THEN 0 ELSE post.calls,
                   res |-> post.res, out |-> extractInvoiceData(net, post.res)]
  /\ UNCHANGED <<selectedFiles, extractedData, isLoading, error, pc, runFiles, tasks, apiKey,
                 xlsx, written>>

\* SpecGateway: the route and the gateway on every request and outcome.
NextGateway ==
  \E req \in Requests, net \in {"reject", "response"}, up \in UpstreamOutcomes :
    RoutePost(req, net, up)

SpecGateway == Init /\ [][NextGateway]_vars

\* ================================================================== claims
\* The run has ended: processInvoices is past its finally.
RunEnded == pc = "idle" /\ tasks # <<>>

\* The i-th task of the run failed: its read failed or gave no payload, or
\* its extraction call threw.
TaskFailed(i) == tasks[i].st = "resolved" /\ tasks[i].call \in {"none", "threw"}

IsDigitString(v) == v.t = "string" /\ \A c \in 1..Len(v.s) : v.s[c] \in Digits

\* The digits of a string, in their order.
DigitsOf(s) == SelectSeq(s, LAMBDA c : c \in Digits)

\* C1: the result set published at the end of a run has one record per file
\* of the run, and record i carries the name of the i-th file, whatever the
\* extraction responses were.
C1_RecordsInInputOrder ==
  (RunEnded /\ extractedData # <<>>) =>
    /\ Len(extractedData) = Len(runFiles)
    /\ \A i \in 1..Len(extractedData) :
         Get(extractedData[i], "fileName") = Str(runFiles[i].name)

\* C2: in every state, the invoiceNumber of every record of the result set
\* is a string of decimal digits, possibly empty.
C2_InvoiceNumberDigitsOnly ==
  \A i \in 1..Len(extractedData) : IsDigitString(Get(extractedData[i], "invoiceNumber"))

\* C2 witness: a published record whose invoice number was cut down from
\* INV-1001, next to or without other records.
C2_Witness ==
  \E i \in 1..Len(extractedData) :
    /\ Get(tasks[i].rec, "invoiceNumber") = Str(S_INV1001)
    /\ Get(extractedData[i], "invoiceNumber") = Str(S_1001)

\* C3: when a task of a run fails, it resolves to the all-'Error' record,
\* the run ends with a full result set and without the batch-level error,
\* and every record is the one of its own task.
C3_PerFileIsolation ==
  (RunEnded /\ \E f \in 1..Len(tasks) : TaskFailed(f)) =>
    /\ \A f \in 1..Len(tasks) : TaskFailed(f) => tasks[f].rec = ErrorRecord(runFiles[f])
    /\ error # ErrCritical
    /\ Len(extractedData) = Len(runFiles)
    /\ \A g \in 1..Len(extractedData) : extractedData[g] = SanitizedRecord(tasks[g].rec)

\* C4: the result set is empty, or it is the complete set of records of a
\* run all of whose tasks are resolved; while the busy flag is set it is
\* empty.
C4_NoPartialResult ==
  /\ isLoading => extractedData = <<>>
  /\ extractedData # <<>> =>
       /\ AllResolved
       /\ pc = "idle"
       /\ Len(extractedData) = Len(tasks)

\* C4 witness: a run in flight with one task resolved and one not.
C4_Witness ==
  /\ isLoading
  /\ extractedData = <<>>
  /\ \E i, j \in 1..Len(tasks) : tasks[i].st = "resolved" /\ tasks[j].st # "resolved"

\* C5: the published invoiceNumber of every record is the digits of the
\* resolved one in their order ('' for an absent or empty one), the other
\* fields are as resolved; a failed file ends with '' and three 'Error',
\* an all-'N/A' response with '' and three 'N/A', 'INV-1001' as '1001'.
C5_SanitizerPass ==
  extractedData # <<>> =>
    \A i \in 1..Len(extractedData) :
      LET r == tasks[i].rec
          d == extractedData[i]
          raw == Get(r, "invoiceNumber")
      IN /\ DOMAIN d = (DOMAIN r) \cup {"invoiceNumber"}
         /\ d["invoiceNumber"] = Str(IF raw.t = "string" THEN DigitsOf(raw.s) ELSE <<>>)
         /\ \A k \in (DOMAIN r) \ {"invoiceNumber"} : d[k] = r[k]
         /\ TaskFailed(i) =>
              d = [fileName |-> Str(runFiles[i].name), invoiceNumber |-> Str(<<>>),
                   companyNumber |-> Str(S_Error), date |-> Str(S_Error),
                   totalAmount |-> Str(S_Error)]
         /\ (tasks[i].call = "returned" /\ tasks[i].data = JSONparse(T_NA).v) =>
              d = [fileName |-> Str(runFiles[i].name), invoiceNumber |-> Str(<<>>),
                   companyNumber |-> Str(S_NA), date |-> Str(S_NA), totalAmount |-> Str(S_NA)]
         /\ raw = Str(S_INV1001) => d["invoiceNumber"] = Str(S_1001)

\* C5 witness: two files, the first with the INV-1001 response, the read of
\* the second failed.
C5_Witness ==
  extractedData =
    << [fileName |-> Str(S_aJpg), invoiceNumber |-> Str(S_1001), companyNumber |-> Str(S_ABN),
        date |-> Str(S_Date), totalAmount |-> Str(S_Amount)],
       [fileName |-> Str(S_bJpg), invoiceNumber |-> Str(<<>>), companyNumber |-> Str(S_Error),
        date |-> Str(S_Error), totalAmount |-> Str(S_Error)] >>

\* C6: processInvoices on an empty selection sets the 'No files selected.'
\* error and nothing else: no promise is created, so no read and no
\* extraction call starts, the busy flag and the result set stay as they
\* were.
C6_EmptySelectionNoWork ==
  [][(Len(selectedFiles) = 0 /\ processInvoices) =>
       /\ error' = ErrNoFiles
       /\ UNCHANGED <<selectedFiles, extractedData, isLoading, pc, runFiles, tasks>>]_vars

\* C6 witness: the error is shown with the result set of an earlier run
\* still in place.
C6_Witness == error = ErrNoFiles /\ extractedData # <<>> /\ ~isLoading

\* C7: a selection that would bring the number of files above 10 leaves
\* the selection as it was and sets the selection error; the selection
\* never holds more than 10 files.
C7_SelectionCap ==
  /\ [](Len(selectedFiles) <= MaxFiles)
  /\ [][\A newFiles \in SelPicks :
          (Len(selectedFiles) + Len(newFiles) > MaxFiles /\ ChooseFiles(newFiles)) =>
            /\ UNCHANGED selectedFiles
            /\ error' = ErrTooMany(Len(newFiles), Len(selectedFiles))]_vars

\* C7 witness: nine files selected and a pick of two rejected.
C7_Witness == Len(selectedFiles) = 9 /\ error = ErrTooMany(2, 9)

\* C8: no two selected files have the same name and the same size.
C8_NoDuplicates ==
  \A i, j \in 1..Len(selectedFiles) :
    (selectedFiles[i].name = selectedFiles[j].name
       /\ selectedFiles[i].size = selectedFiles[j].size) => i = j

\* C9: when the sanitizer pass throws, the run ends with the batch-level
\* error set, the result set empty and the busy flag cleared.
C9_BatchLevelError ==
  [][(ProcessInvoicesResume /\ SanitizerPassThrows(PromiseAll(tasks))) =>
       /\ error' = ErrCritical
       /\ extractedData' = <<>>
       /\ isLoading' = FALSE]_vars

\* C9 witness: a run of two files ended with the batch-level error.
C9_Witness ==
  /\ RunEnded
  /\ Len(tasks) = 2
  /\ SanitizerPassThrows(PromiseAll(tasks))
  /\ error = ErrCritical
  /\ extractedData = <<>>
  /\ ~isLoading

\* The value has exactly the four fields, each a string.
FourStringFields(v) ==
  /\ v.t = "object"
  /\ DOMAIN v.o = Fields
  /\ \A k \in Fields : v.o[k].t = "string"

\* C10: whatever extractInvoiceData returns is an object with exactly the
\* four string fields invoiceNumber, companyNumber, date and totalAmount.
C10_ExactlyFourStringFields ==
  \A i \in 1..Len(tasks) : tasks[i].call = "returned" => FourStringFields(tasks[i].data)

\* A step of the export handler, from its button or called directly.
ExportStep == ClickDownload \/ CallDownloadEmpty

\* C11: an export writes a file only when the library is loaded and the
\* result set is non-empty.  Without the library the export sets the
\* 'library still loading' message; with the library and an empty result
\* set it sets 'No data to export.'; in both cases the written file stays as
\* it was.  No export changes the result set, the selection or the busy
\* flag, and no step writes a file without library or without results.
C11_ExportGuards ==
  /\ [][ExportStep =>
          /\ UNCHANGED <<extractedData, selectedFiles, isLoading>>
          /\ (~xlsx => error' = ErrXlsxLoading /\ UNCHANGED written)
          /\ (xlsx /\ Len(extractedData) = 0 => error' = ErrNoData /\ UNCHANGED written)]_vars
  /\ [][written' # written => xlsx /\ Len(extractedData) > 0]_vars

\* An export was refused for the missing library while there were results.
C11_Witness == error = ErrXlsxLoading /\ Len(extractedData) > 0 /\ written = NoFile

\* C12: an export with the library loaded and a non-empty result set writes
\* the file 'InvoiceData.xlsx' with the single sheet 'Invoices': the five
\* columns Invoice Number, Company Number, Date, Total Amount, Source File,
\* one row per record in the order of the result set, each cell the
\* record's field, and the last column as wide as the longest fileName,
\* at least 10.
C12_ExportedSheet ==
  [][ExportStep /\ xlsx /\ Len(extractedData) > 0 =>
       /\ written'.fileName = "InvoiceData.xlsx"
       /\ Len(written'.sheets) = 1
       /\ LET sheet == written'.sheets[1]
              names == {Len(extractedData[i]["fileName"].s) : i \in 1..Len(extractedData)}
          IN /\ sheet.name = "Invoices"
             /\ sheet.header =
                  <<"Invoice Number", "Company Number", "Date", "Total Amount", "Source File">>
             /\ Len(sheet.rows) = Len(extractedData)
             /\ \A i \in 1..Len(extractedData) :
                  /\ sheet.rows[i][1] = Get(extractedData[i], "invoiceNumber")
                  /\ sheet.rows[i][2] = Get(extractedData[i], "companyNumber")
                  /\ sheet.rows[i][3] = Get(extractedData[i], "date")
                  /\ sheet.rows[i][4] = Get(extractedData[i], "totalAmount")
                  /\ sheet.rows[i][5] = Get(extractedData[i], "fileName")
             /\ sheet.cols[5] \in names \cup {10}
             /\ \A n \in names \cup {10} : sheet.cols[5] >= n]_vars

\* A file of two rows was written whose last column is wider than 10, and
\* one of its rows has a shorter file name.
C12_Witness ==
  /\ written # NoFile
  /\ Len(written.sheets[1].rows) = 2
  /\ written.sheets[1].cols[5] > 10
  /\ \E i \in 1..2 : Len(written.sheets[1].rows[i][5].s) < 10

\* The route answered the last exchange.
Answered == served.made /\ served.net = "response"

SelectionStep == \E newFiles \in PagePicks \cup AppPicks \cup SelPicks : ChooseFiles(newFiles)
RemovalStep == \E i \in 1..Len(selectedFiles) : ClickRemove(i)
ProcessStep == ClickProcess \/ CallProcessEmpty

\* The step is refused by its handler, which then sets its own message: a
\* pick over the limit, a run on no files, an export without the library
\* or without results.
RefusedStep ==
  \/ \E newFiles \in PagePicks \cup AppPicks \cup SelPicks :
       ChooseFiles(newFiles) /\ Len(selectedFiles) + Len(newFiles) > MaxFiles
  \/ CallProcessEmpty
  \/ ExportStep /\ (~xlsx \/ Len(extractedData) = 0)

\* C14: when a message is shown and the user performs a next action (file
\* selection, file removal, process trigger, export), the earlier message
\* is no longer shown after the action: the message is cleared, or the
\* action is refused and shows its own message.
C14_ErrorsDismissedByNextAction ==
  [][(error # "" /\ (SelectionStep \/ RemovalStep \/ ProcessStep \/ ExportStep)) =>
       (error' = "" \/ RefusedStep)]_vars

\* A run starts, and a run completes.
RunStarts == pc = "idle" /\ pc' = "await"
RunCompletes == pc = "await" /\ pc' = "idle"

\* C15: a run replaces the result set wholesale.  When a run starts the
\* message is cleared and the result set is emptied; the result set stays
\* empty during the run; when the run completes the result set is empty or
\* holds exactly the sanitized records of that run's tasks, in their order.
C15_RunReplacesResults ==
  /\ [][RunStarts => error' = "" /\ extractedData' = <<>>]_vars
  /\ [](pc = "await" => extractedData = <<>>)
  /\ [][RunCompletes =>
          \/ extractedData' = <<>>
          \/ /\ Len(extractedData') = Len(tasks)
             /\ \A i \in 1..Len(tasks) :
                  extractedData'[i] =
                    Spread(tasks[i].rec,
                           [invoiceNumber |->
                              sanitizeInvoiceNumber(Get(tasks[i].rec, "invoiceNumber"))])]_vars

\* A run of two files was exported, and a later run of one file has
\* completed: the result set holds that run's one record.
C15_Witness ==
  /\ written # NoFile
  /\ Len(written.sheets[1].rows) = 2
  /\ pc = "idle" /\ Len(tasks) = 1 /\ Len(extractedData) = 1

\* C16: the busy flag is set exactly for the duration of a run.  It is set
\* exactly while processInvoices is at its await; it stays set while a task
\* of the run is unresolved, so it stays set for ever when a read or an
\* extraction never resolves; and once every task of the run is resolved it
\* eventually becomes false, with or without a batch-level error.
C16_BusyForTheRun ==
  /\ [](isLoading <=> pc = "await")
  /\ [][isLoading /\ ~AllResolved => isLoading']_vars
  /\ [][~isLoading /\ isLoading' => RunStarts /\ Len(selectedFiles) > 0]_vars
  /\ (isLoading /\ AllResolved) ~> ~isLoading

\* A run of two files has ended with the batch-level error and the busy
\* flag is false again.
C16_Witness ==
  /\ RunEnded /\ Len(tasks) = 2
  /\ ~isLoading /\ error = ErrCritical
  /\ extractedData = <<>>

\* C17: within a run there is one task per selected file, at most one
\* extraction request is sent for it, and none when its read failed or
\* gave no payload; the requests of a file cause at most as many calls to
\* the inference endpoint as there are requests; a resolved task, failed or
\* not, sends nothing more during the run.
C17_AtMostOneCallPerFile ==
  /\ [](/\ Len(tasks) = Len(runFiles)
        /\ \A i \in 1..Len(tasks) :
             /\ tasks[i].sent <= 1
             /\ tasks[i].upstream <= tasks[i].sent
             /\ (tasks[i].st = "reading" => tasks[i].sent = 0)
             /\ (tasks[i].st = "resolved" /\ tasks[i].call = "none" => tasks[i].sent = 0))
  /\ [][pc = "await" /\ pc' = "await" =>
          \A i \in 1..Len(tasks) :
            tasks[i].st = "resolved" => tasks'[i] = tasks[i]]_vars

\* A run of two files has ended: one file had no extraction request, the
\* other one request, which failed after one call to the inference endpoint.
C17_Witness ==
  /\ RunEnded /\ Len(tasks) = 2
  /\ tasks[1].call = "none" /\ tasks[1].sent = 0
  /\ tasks[2].call = "threw" /\ tasks[2].sent = 1 /\ tasks[2].upstream = 1

\* The last exchange was a request of the page, answered by a route that
\* has its key.
PageRequestServed == Answered /\ apiKey /\ served.req = Body(S_Payload, Prompt)

\* C18: the gateway returns a result only when the inference endpoint
\* answered with a success status and the first part of its first
\* candidate carries text.  A non-success status of the endpoint is passed
\* back by the route with the same status and the body 'Upstream error',
\* and extractInvoiceData fails on it; a success answer without candidate
\* text makes extractInvoiceData fail with 'No structured result from model'.
C18_GatewayResults ==
  served.made =>
    /\ (~served.out.threw =>
          /\ served.net = "response"
          /\ served.up.kind = "answer"
          /\ served.up.status \in 200..299
          /\ served.up.hasText /\ served.up.text # "")
    /\ (PageRequestServed /\ served.up.kind = "answer" /\ served.up.status \notin 200..299 =>
          /\ served.res.status = served.up.status
          /\ served.res.error = "Upstream error"
          /\ served.out.threw /\ served.out.msg = "Server extraction failed")
    /\ (PageRequestServed /\ served.up.kind = "answer" /\ served.up.status \in 200..299
          /\ ~(served.up.hasText /\ served.up.text # "") =>
          served.out.threw /\ served.out.msg = "No structured result from model")

\* The endpoint answered a request of the page with 429, and the route
\* passed the status on.
C18_Witness ==
  /\ PageRequestServed
  /\ served.up = Upstream("answer", 429, FALSE, "")
  /\ served.res.status = 429
  /\ served.out.threw

\* C19: the result set, the busy flag and the error flag are written only
\* by processInvoices and its completion: file selection, file removal and
\* export leave all three unchanged.
C19_OnlyOrchestratorWrites ==
  [][SelectionStep \/ RemovalStep \/ ExportStep =>
       UNCHANGED <<extractedData, isLoading, error>>]_vars

\* C19, amended: the result set and the busy flag are written only by
\* processInvoices and its completion: file selection, file removal and
\* export leave both unchanged, and a step that changes one of them is a
\* start or a completion of a run.  The error flag is written by the
\* selection, removal and export handlers as well.
C19_ResultsAndBusyOnlyByOrchestrator ==
  /\ [][SelectionStep \/ RemovalStep \/ ExportStep =>
          UNCHANGED <<extractedData, isLoading>>]_vars
  /\ [][extractedData' # extractedData \/ isLoading' # isLoading =>
          RunStarts \/ RunCompletes]_vars

\* After a run of two files the export handler has set its message: the
\* result set and the busy flag are as the run left them.
C19_Witness ==
  /\ RunEnded /\ ~isLoading
  /\ Len(extractedData) = 2 /\ Len(runFiles) = 2
  /\ error = ErrXlsxLoading

\* The files of a sequence.
FilesOf(files) == {files[i] : i \in 1..Len(files)}

\* C20: the result of a run is aligned with the selection as it was when
\* the run started.  A run works on the files selected at its start; a
\* step that changes the selection leaves the run, its tasks, the busy flag
\* and the result set as they are; and the result set a run publishes has
\* one record per file selected at the start, record i made from the data
\* extracted for the i-th of them (named after that file unless the data
\* carries a fileName of its own), whatever is selected by then.
C20_AlignedWithSelectionAtStart ==
  /\ [][RunStarts => runFiles' = selectedFiles /\ Len(tasks') = Len(selectedFiles)]_vars
  /\ [][selectedFiles' # selectedFiles =>
          UNCHANGED <<pc, runFiles, tasks, isLoading, extractedData>>]_vars
  /\ [][RunCompletes /\ extractedData' # <<>> =>
          /\ Len(extractedData') = Len(runFiles)
          /\ \A i \in 1..Len(runFiles) :
               /\ tasks[i].call = "returned" =>
                    \A k \in DOMAIN OwnProps(tasks[i].data) \ {"invoiceNumber"} :
                      Get(extractedData'[i], k) = OwnProps(tasks[i].data)[k]
               /\ tasks[i].call # "returned" =>
                    Get(extractedData'[i], "companyNumber") = Str(S_Error)
               /\ "fileName" \notin DOMAIN OwnProps(tasks[i].data) =>
                    Get(extractedData'[i], "fileName") = Str(runFiles[i].name)]_vars

\* A run of two files is about to complete with a result set; meanwhile
\* one of its files was removed from the selection and another file added.
C20_Witness ==
  /\ pc = "await" /\ AllResolved /\ Len(runFiles) = 2
  /\ \A i \in 1..Len(tasks) : ~SanitizeThrows(Get(tasks[i].rec, "invoiceNumber"))
  /\ FilesOf(runFiles) \ FilesOf(selectedFiles) # {}
  /\ FilesOf(selectedFiles) \ FilesOf(runFiles) # {}

\* C21: at most one run is in flight at any time.  The busy flag is set
\* while a run is in flight, the process handler starts a run only while
\* the busy flag is clear and no run is awaited, and while a run is in
\* flight no step replaces its files or its tasks by those of another run:
\* the step that publishes results or clears the busy flag is the
\* completion of the one run started last.
C21_OneRunInFlight ==
  /\ [](pc = "await" => isLoading)
  /\ [][ProcessStep /\ Len(selectedFiles) > 0 => ~isLoading /\ pc = "idle"]_vars
  /\ [][pc = "await" => runFiles' = runFiles /\ Len(tasks') = Len(tasks)]_vars
  /\ [][isLoading /\ (~isLoading' \/ extractedData' # extractedData) =>
          RunCompletes /\ AllResolved]_vars

\* A run is in flight with a task unresolved while another selection, on
\* which a run could be started, is on the page.
C21_Witness ==
  /\ pc = "await" /\ isLoading /\ ~AllResolved
  /\ Len(selectedFiles) > 0 /\ Len(selectedFiles) <= MaxRun
  /\ selectedFiles # runFiles

====
